---- MODULE Spec2Model ----
(***************************************************************************)
(* Model of the Maya batch-render utility: MainModel (src/src/model.py),   *)
(* driven by main.py and MainController (src/src/controller.py).           *)
(*                                                                         *)
(* Text is modelled as a sequence of atoms (strings): a file name "s.ma"   *)
(* is <<"s", ".", "ma">>, a path separator is the atom "/" or "\\", a      *)
(* line of the batch script is the sequence of its words, and a script is  *)
(* the sequence of its lines.  A JSON document is the sequence of its      *)
(* lexical tokens (white space dropped).                                   *)
(***************************************************************************)
EXTENDS Integers, Sequences, FiniteSets, TLC

(***************************************************************************)
(* Generic helpers on sequences.                                           *)
(***************************************************************************)
Range(s) == {s[i] : i \in 1..Len(s)}

Last(s) == s[Len(s)]

\* the greatest index i of s with s[i] \in set, 0 when there is none
LastIndexIn(s, set) ==
    LET idx == {i \in 1..Len(s) : s[i] \in set}
    IN  IF idx = {} THEN 0 ELSE CHOOSE i \in idx : \A j \in idx : j <= i

RECURSIVE Flatten(_)
Flatten(ss) == IF ss = <<>> THEN <<>> ELSE Head(ss) \o Flatten(Tail(ss))

(***************************************************************************)
(* pathlib, as used by the program (a Windows program: its renderer lives  *)
(* under C:/Program Files, so both "/" and "\\" separate path segments).   *)
(***************************************************************************)
Separators == {"/", "\\"}

RECURSIVE StripTrailingSeparators(_)
StripTrailingSeparators(p) ==
    IF p # <<>> /\ Last(p) \in Separators
    THEN StripTrailingSeparators(SubSeq(p, 1, Len(p) - 1))
    ELSE p

\* the segments of a path, split at the separators ("." segments and empty
\* segments are dropped, as pathlib does when it builds a Path)
RECURSIVE PathParts(_)
PathParts(p) ==
    IF p = <<>> THEN <<>>
    ELSE LET i == CHOOSE k \in 1..(Len(p) + 1) :
                     /\ (k = Len(p) + 1 \/ p[k] \in Separators)
                     /\ \A j \in 1..(k - 1) : p[j] \notin Separators
             seg  == SubSeq(p, 1, i - 1)
             rest == IF i >= Len(p) THEN <<>> ELSE SubSeq(p, i + 1, Len(p))
         IN  IF seg = <<>> \/ seg = <<".">> THEN PathParts(rest)
             ELSE <<seg>> \o PathParts(rest)

\* a drive ("C:") is one atom; pathlib takes it for a drive where a path
\* starts with it
DriveAtoms == {"C:", "D:"}

\* pathlib drops the "." segments of a path, and the separators that end it
RECURSIVE StripTrailingDots(_)
StripTrailingDots(p) ==
    IF p = <<>> THEN p
    ELSE IF Last(p) \in Separators
         THEN StripTrailingDots(SubSeq(p, 1, Len(p) - 1))
    ELSE IF Last(p) = "." /\ (Len(p) = 1 \/ p[Len(p) - 1] \in Separators)
         THEN StripTrailingDots(SubSeq(p, 1, Len(p) - 1))
    ELSE p

\* a path without the drive it starts with
WithoutDrive(p) == IF p # <<>> /\ Head(p) \in DriveAtoms THEN Tail(p) ELSE p

\* what follows the last separator
LastSegment(p) == SubSeq(p, LastIndexIn(p, Separators) + 1, Len(p))

\* Path(p).name: the final path segment, "" for a path that is a drive or
\* "." alone
PathName(p) == LastSegment(StripTrailingDots(WithoutDrive(p)))

\* Path(p).stem: the final segment without its last suffix; a leading or a
\* trailing dot starts no suffix
PathStem(p) ==
    LET name == PathName(p)
        i    == LastIndexIn(name, {"."})
    IN  IF 1 < i /\ i < Len(name) THEN SubSeq(name, 1, i - 1) ELSE name

\* base / name for a name without separators: a name that starts with a
\* drive other than the drive of base replaces base, and one that starts
\* with base's own drive is joined without it
JoinChild(base, name) ==
    IF name # <<>> /\ Head(name) \in DriveAtoms
    THEN IF base # <<>> /\ Head(base) = <<Head(name)>>
         THEN base \o (IF Len(name) > 1 THEN <<Tail(name)>> ELSE <<>>)
         ELSE <<name>>
    ELSE base \o <<name>>

\* Path.resolve() on the segments: ".." steps to the parent
RECURSIVE ResolveParts(_, _)
ResolveParts(parts, acc) ==
    IF parts = <<>> THEN acc
    ELSE IF Head(parts) = <<".", ".">>
         THEN ResolveParts(Tail(parts),
                           IF acc = <<>> THEN acc ELSE SubSeq(acc, 1, Len(acc) - 1))
         ELSE ResolveParts(Tail(parts), Append(acc, Head(parts)))

\* str(path) on Windows: the segments joined by "\\"
RECURSIVE JoinParts(_)
JoinParts(parts) ==
    IF parts = <<>> THEN <<>>
    ELSE IF Len(parts) = 1 THEN Head(parts)
    ELSE Head(parts) \o <<"\\">> \o JoinParts(Tail(parts))

\* str.replace(old, new) on atoms
ReplaceAtom(s, old, new) == [i \in 1..Len(s) |-> IF s[i] = old THEN new ELSE s[i]]

(***************************************************************************)
(* JSON (json.dump / json.load), on token sequences.  A Python value is a  *)
(* record [k, s, items]: k is its type ("str", "num", "null", "list",      *)
(* "obj"), s the text of a string or number, items the elements of a list  *)
(* or the <<key, value>> members of a dict.                                *)
(***************************************************************************)
Quote == "\""

Digits == {"0", "1", "2", "3", "4", "5", "6", "7", "8", "9"}

Structural == {"{", "}", "[", "]", ":", ",", Quote}

PyStr(s) == [k |-> "str", s |-> s, items |-> <<>>]

PyNum(s) == [k |-> "num", s |-> s, items |-> <<>>]

PyNone == [k |-> "null", s |-> "", items |-> <<>>]

PyList(items) == [k |-> "list", s |-> "", items |-> items]

PyDict(members) == [k |-> "obj", s |-> "", items |-> members]

\* a list[str] as a Python value
PyStrList(names) == PyList([i \in 1..Len(names) |-> PyStr(names[i])])

RECURSIVE DumpItems(_)
DumpItems(names) ==
    IF names = <<>> THEN <<>>
    ELSE <<Quote, Head(names), Quote>>
         \o (IF Len(names) > 1 THEN <<",">> ELSE <<>>)
         \o DumpItems(Tail(names))

\* json.dump({"aovs": aov_list}, f, indent=4) for a list of strings
\* variant: a dump that writes the first name only
DumpFirstName(names) ==
    <<"{", Quote, "aovs", Quote, ":", "[">>
        \o DumpItems(IF names = <<>> THEN <<>> ELSE <<Head(names)>>) \o <<"]", "}">>

Dump(names) ==
    <<"{", Quote, "aovs", Quote, ":", "[">> \o DumpItems(names) \o <<"]", "}">>

ParseFail == [ok |-> FALSE, val |-> PyNone, next |-> 0]

ParseOk(v, n) == [ok |-> TRUE, val |-> v, next |-> n]

Tok(t, i) == IF i >= 1 /\ i <= Len(t) THEN t[i] ELSE "<EOF>"

RECURSIVE ParseValue(_, _)
RECURSIVE ParseElems(_, _, _)
RECURSIVE ParseMembers(_, _, _)

ParseValue(t, i) ==
    LET c == Tok(t, i)
    IN  CASE c = Quote ->
               IF Tok(t, i + 1) = Quote THEN ParseOk(PyStr(""), i + 2)
               ELSE IF Tok(t, i + 2) = Quote /\ Tok(t, i + 1) \notin Structural
                    THEN ParseOk(PyStr(t[i + 1]), i + 3)
                    ELSE ParseFail
          [] c \in Digits -> ParseOk(PyNum(c), i + 1)
          [] c = "null" -> ParseOk(PyNone, i + 1)
          [] c = "[" ->
               IF Tok(t, i + 1) = "]" THEN ParseOk(PyList(<<>>), i + 2)
               ELSE ParseElems(t, i + 1, <<>>)
          [] c = "{" ->
               IF Tok(t, i + 1) = "}" THEN ParseOk(PyDict(<<>>), i + 2)
               ELSE ParseMembers(t, i + 1, <<>>)
          [] OTHER -> ParseFail

ParseElems(t, i, acc) ==
    LET r == ParseValue(t, i)
    IN  IF ~r.ok THEN ParseFail
        ELSE IF Tok(t, r.next) = "," THEN ParseElems(t, r.next + 1, Append(acc, r.val))
        ELSE IF Tok(t, r.next) = "]" THEN ParseOk(PyList(Append(acc, r.val)), r.next + 1)
        ELSE ParseFail

ParseMembers(t, i, acc) ==
    LET key == ParseValue(t, i)
    IN  IF ~key.ok \/ key.val.k # "str" \/ Tok(t, key.next) # ":" THEN ParseFail
        ELSE LET r == ParseValue(t, key.next + 1)
                 m == Append(acc, <<key.val.s, r.val>>)
             IN  IF ~r.ok THEN ParseFail
                 ELSE IF Tok(t, r.next) = "," THEN ParseMembers(t, r.next + 1, m)
                 ELSE IF Tok(t, r.next) = "}" THEN ParseOk(PyDict(m), r.next + 1)
                 ELSE ParseFail

\* json.load(f): the whole text must be one value (else JSONDecodeError)
JsonLoad(doc) ==
    LET r == ParseValue(doc, 1)
    IN  IF r.ok /\ r.next = Len(doc) + 1 THEN r ELSE ParseFail

\* dict.get(key, default): the value of the last member named key
DictGet(d, key, default) ==
    LET i == LastIndexIn([j \in 1..Len(d.items) |-> d.items[j][1]], {key})
    IN  IF i = 0 THEN default ELSE d.items[i][2]

\* len(v) raises TypeError for a number and for None
HasLen(v) == v.k \in {"str", "list", "obj"}

\* the names a loaded selection holds (the strings of a list)
NamesOf(v) ==
    IF v.k = "list"
    THEN {v.items[i].s : i \in {j \in 1..Len(v.items) : v.items[j].k = "str"}}
    ELSE {}

(***************************************************************************)
(* sorted(): Python compares strings by code point.  AtomOrder lists the   *)
(* atoms that file names of the model are made of in that order; names are *)
(* compared atom by atom.                                                  *)
(***************************************************************************)
\* variant: a collation that puts a letter's lower case before its upper case
AtomOrderCollated ==
    <<".", "a", "A", "b", "bat", "json", "ma", "mb", "render_", "s", "t">>

AtomOrder == <<".", "A", "a", "b", "bat", "json", "ma", "mb", "render_", "s", "t">>

AtomRank(a) ==
    IF \E i \in 1..Len(AtomOrder) : AtomOrder[i] = a
    THEN CHOOSE i \in 1..Len(AtomOrder) : AtomOrder[i] = a
    ELSE 0

RECURSIVE NameLess(_, _)
NameLess(a, b) ==
    IF b = <<>> THEN FALSE
    ELSE IF a = <<>> THEN TRUE
    ELSE IF Head(a) = Head(b) THEN NameLess(Tail(a), Tail(b))
    ELSE AtomRank(Head(a)) < AtomRank(Head(b))

RECURSIVE SortedNames(_)
SortedNames(set) ==
    IF set = {} THEN <<>>
    ELSE LET m == CHOOSE x \in set : \A y \in set \ {x} : NameLess(x, y)
         IN  <<m>> \o SortedNames(set \ {m})

\* Path.glob("*.<ext>") on the names of a folder
Glob(names, ext) ==
    {n \in names : Len(n) >= 2 /\ n[Len(n)] = ext /\ n[Len(n) - 1] = "."}

(***************************************************************************)
(* The world the program runs in.  Two project folders exist, C:/P and     *)
(* C:/Q; C:/X names no folder.  A project path is kept as pathlib keeps    *)
(* it: the sequence of its segments.                                       *)
(***************************************************************************)
DirNames == {"P", "Q"}

\* what the folder dialog or the settings file can hand to set_project_path
PathInputs ==
    { <<>>,                    \* ""
      <<"C:", "/", "P">>,
      <<"C:", "/", "Q">>,
      <<"C:", "/", "X">> }     \* not a folder

\* self._project_path = None
NoProject == <<<<"<None>">>>>

\* the folder a path names, "<none>" when it names no folder
DirOf(parts) ==
    LET r == ResolveParts(parts, <<>>)
    IN  IF Len(r) = 2 /\ r[1] = <<"C:">> /\ Len(r[2]) = 1 /\ r[2][1] \in DirNames
        THEN r[2][1]
        ELSE "<none>"

\* Path.is_dir()
IsDir(parts) == DirOf(parts) \in DirNames

\* the scene files, the renderer versions and the AOV names of the model
SceneS_ma == <<"s", ".", "ma">>

SceneS_mb == <<"s", ".", "mb">>

SceneInputs == {<<>>, SceneS_ma, SceneS_mb}

AovLists == {<<>>, <<"N", "beauty">>, <<"N", "N">>}

\* range(2026, 2020, -1)
NewestMaya == 2026

OldestMaya == 2021

MayaVersions == OldestMaya..NewestMaya

\* the versions that are installed on the machines of the model
InstallableVersions == {2026}

\* str(Path("C:/Program Files/Autodesk") / f"Maya{version}" / "bin" / "Render.exe")
RenderExe(version) ==
    <<"C:", "\\", "Program Files", "\\", "Autodesk", "\\", "Maya", ToString(version),
      "\\", "bin", "\\", "Render.exe">>

\* AOV files other programs may leave in render/json
DocNotAList == <<"{", Quote, "aovs", Quote, ":", Quote, "not-a-list", Quote, "}">>

DocNoKey == <<"{", "}">>

DocNumber == <<"{", Quote, "aovs", Quote, ":", "5", "}">>

DocArray == <<"[", Quote, "N", Quote, "]">>

ExternalDocs == {DocNotAList, DocNoKey, DocNumber, DocArray}

\* the depths the reflection and refraction spin boxes may hold
DepthValues == {0, 8}

\* the file names the user may type: none, one that cp932 can encode, and
\* one with a character that cp932 cannot encode
FileNames == {<<>>, <<"out">>, <<"out", "<not in cp932>">>}

\* what view.get_current_render_settings() can return: every file name with
\* every value of the AOV flag, and every value of the ray-tracing flag and
\* of the two depths for a call that gives no file name
SettingsSet ==
    { s \in [ file_name : FileNames,
              format : {"exr"}, width : {1920}, height : {1080},
              start_frame : {1}, end_frame : {5}, engine : {"cpu"},
              cam_aa : {3}, diffuse : {2}, specular : {2}, transmission : {2},
              sss : {2}, volume_indirect : {2}, motion_blur : {FALSE},
              ray_tracing : BOOLEAN, reflection : DepthValues,
              refraction : DepthValues,
              camera : {<<"perspShape">>},
              aov_enabled : BOOLEAN ] :
        \/ s.file_name = <<>>
        \/ ~s.ray_tracing /\ s.reflection = 8 /\ s.refraction = 8 }

NoSettings == CHOOSE s \in SettingsSet : TRUE

(***************************************************************************)
(* State.                                                                  *)
(***************************************************************************)
VARIABLES
    pc,               \* main.py: "settings", "render", "presets", "defaults",
                      \* then "ui" (the event loop)
    render_exe_path,  \* MainModel._render_exe_path (<<>> is "")
    project_path,     \* MainModel._project_path
    render_files,     \* MainModel._render_files
    aov_json_files,   \* MainModel._aov_json_files
    loaded_aovs,      \* MainModel._loaded_aovs
    image_presets,    \* MainModel._image_presets
    image_width,      \* MainModel._image_width
    image_height,     \* MainModel._image_height
    current_preset,   \* MainModel._current_preset
    view_json_list,   \* the list last published by aov_json_files_changed
    installed,        \* the Maya versions whose Render.exe is on disk
    render_dir,       \* per folder: <folder>/render exists
    json_dir,         \* per folder: <folder>/render/json exists
    aov_fs,           \* per folder: the files of render/json, name -> text
    bat_fs,           \* per folder: the batch files, name -> script
    settings_file,    \* JSON/settings.json
    log,              \* what the last call sent to log_message_generated
    errors,           \* what the last call sent to error_message_generated
    raised,           \* the last call ended with an exception
    last              \* the last call and its arguments

vars == <<pc, render_exe_path, project_path, render_files, aov_json_files,
          loaded_aovs, image_presets, image_width, image_height,
          current_preset, view_json_list, installed, render_dir, json_dir, aov_fs,
          bat_fs, settings_file, log, errors, raised, last>>

\* the scene files under <folder>/render (they do not change in the model)
Scenes(d) == IF d = "P" THEN {SceneS_ma, SceneS_mb} ELSE {}

NoFile == <<"<absent>">>

CorruptFile == <<"<corrupt>">>

EmptyFn == [x \in {} |-> <<>>]

\* the state a call starts from: the fields a call can change, its outputs empty
Here ==
    [ render_exe_path |-> render_exe_path, project_path |-> project_path,
      render_files |-> render_files, aov_json_files |-> aov_json_files,
      loaded_aovs |-> loaded_aovs, view_json_list |-> view_json_list,
      image_presets |-> image_presets, image_width |-> image_width,
      image_height |-> image_height, current_preset |-> current_preset,
      render_dir |-> render_dir, json_dir |-> json_dir, aov_fs |-> aov_fs,
      bat_fs |-> bat_fs, settings_file |-> settings_file,
      log |-> <<>>, errors |-> <<>>, raised |-> FALSE ]

\* the state a call ends in
Commit(st) ==
    \E r \in {st} :
        /\ render_exe_path' = r.render_exe_path
        /\ project_path' = r.project_path
        /\ render_files' = r.render_files
        /\ aov_json_files' = r.aov_json_files
        /\ loaded_aovs' = r.loaded_aovs
        /\ image_presets' = r.image_presets
        /\ image_width' = r.image_width
        /\ image_height' = r.image_height
        /\ current_preset' = r.current_preset
        /\ view_json_list' = r.view_json_list
        /\ render_dir' = r.render_dir
        /\ json_dir' = r.json_dir
        /\ aov_fs' = r.aov_fs
        /\ bat_fs' = r.bat_fs
        /\ settings_file' = r.settings_file
        /\ log' = r.log
        /\ errors' = r.errors
        /\ raised' = r.raised

Call(op, path, scene, aovs, settings, io) ==
    [op |-> op, path |-> path, scene |-> scene, aovs |-> aovs,
     settings |-> settings, io |-> io]

add_log(st, msg) == [st EXCEPT !.log = Append(@, msg)]

add_error(st, msg) == [st EXCEPT !.errors = Append(@, msg)]

(***************************************************************************)
(* The AOV store.                                                          *)
(***************************************************************************)
\* f"{scene_basename}.json"
JsonName(scene_filename) == PathStem(scene_filename) \o <<".", "json">>

\* self._project_path / "render" / "json" / f"{scene_basename}.json"
JsonPath(project, scene_filename) ==
    JoinChild(project \o << <<"render">>, <<"json">> >>, JsonName(scene_filename))

\* json_path.exists() and json_path.is_file()
AovFileExists(st, d, name) == st.json_dir[d] /\ name \in DOMAIN st.aov_fs[d]

LogJsonFolder == <<"LOG: searching the AOV JSON folder">>

LogNoJsonFolder == <<"LOG: AOV JSON folder not found">>

LogJsonFound(files) == <<"LOG: AOV JSON files found", ToString(Len(files))>>

_update_aov_json_files(st) ==
    IF st.project_path = NoProject
    THEN [st EXCEPT !.view_json_list = <<>>]
    ELSE LET d  == DirOf(st.project_path)
             s1 == add_log(st, LogJsonFolder)
         IN  IF ~s1.json_dir[d]
             THEN [add_log(s1, LogNoJsonFolder) EXCEPT !.view_json_list = <<>>]
             ELSE LET files == SortedNames(Glob(DOMAIN s1.aov_fs[d], "json"))
                  IN  [add_log(s1, LogJsonFound(files))
                          EXCEPT !.aov_json_files = files, !.view_json_list = files]

LogAovLoaded(name, v) ==
    <<"LOG: AOV settings loaded">> \o name
        \o <<IF v.k = "str" THEN "len(str)" ELSE ToString(Len(v.items))>>

ErrAovLoad(name) == <<"ERR: failed to read the AOV file">> \o name

LogAovAbsent(name) == <<"LOG: AOV settings file not found">> \o name

\* variant: an absent file is reported as a file that cannot be read
AovFileAbsentAsError(st, name) ==
    add_error([st EXCEPT !.loaded_aovs = PyList(<<>>)], ErrAovLoad(name))

\* the else branch of load_aovs_for_scene: there is no such file
AovFileAbsent(st, name) ==
    add_log([st EXCEPT !.loaded_aovs = PyList(<<>>)], LogAovAbsent(name))

\* emitRaises: whether aov_data_loaded, a Signal(list), raises when it is
\* given a value that is no list (the source does not decide it)
load_aovs_for_scene(st, scene_filename, emitRaises) ==
    IF st.project_path = NoProject \/ scene_filename = <<>> THEN st
    ELSE LET d      == DirOf(st.project_path)
             name   == JsonName(scene_filename)
             failed == add_error([st EXCEPT !.loaded_aovs = PyList(<<>>)],
                                 ErrAovLoad(name))
         IN  IF AovFileExists(st, d, name)
             THEN LET r == JsonLoad(st.aov_fs[d][name])
                  IN  IF ~r.ok \/ r.val.k # "obj" THEN failed
                      ELSE LET v == DictGet(r.val, "aovs", PyList(<<>>))
                           IN  IF ~HasLen(v) THEN failed
                               ELSE IF v.k # "list" /\ emitRaises
                               THEN add_error(
                                      [add_log(st, LogAovLoaded(name, v))
                                          EXCEPT !.loaded_aovs = PyList(<<>>)],
                                      ErrAovLoad(name))
                               ELSE add_log([st EXCEPT !.loaded_aovs = v],
                                            LogAovLoaded(name, v))
             ELSE AovFileAbsent(st, name)

ErrSaveArgs == <<"ERR: project path or scene file is not given">>

LogAovSaved(name, aov_list) ==
    <<"LOG: AOV settings saved">> \o name \o <<ToString(Len(aov_list))>>

ErrSave == <<"ERR: failed to save the settings">>

\* where a write that fails may stop: the tokens that reached the file
WritePoints == {6}

\* how a write to storage goes: fail is "none", or the step that fails:
\* "mkdir" (the folder cannot be made), "open" (the file cannot be opened),
\* "write" (the write stops after k tokens; open(.., 'w') has emptied the
\* file by then)
Io(fail, k) == [fail |-> fail, k |-> k]

IoOk == Io("none", 0)

IoSave == {IoOk, Io("mkdir", 0), Io("open", 0)} \cup {Io("write", k) : k \in WritePoints}

save_aovs_for_scene(st, scene_filename, aov_list, io) ==
    IF st.project_path = NoProject \/ scene_filename = <<>>
    THEN add_error(st, ErrSaveArgs)
    ELSE LET d    == DirOf(st.project_path)
             name == JsonName(scene_filename)
             doc  == Dump(aov_list)
         IN  IF ~st.json_dir[d] /\ io.fail = "mkdir"
             THEN [st EXCEPT !.raised = TRUE]
             ELSE LET s1 == [st EXCEPT !.json_dir[d] = TRUE, !.render_dir[d] = TRUE]
                  IN  CASE io.fail = "open" -> add_error(s1, ErrSave)
                        [] io.fail = "write" ->
                             add_error(
                               [s1 EXCEPT !.aov_fs[d] =
                                   (name :> SubSeq(doc, 1, io.k)) @@ @],
                               ErrSave)
                        [] OTHER ->
                             _update_aov_json_files(
                               add_log([s1 EXCEPT !.aov_fs[d] = (name :> doc) @@ @],
                                       LogAovSaved(name, aov_list)))

(***************************************************************************)
(* The render-job compiler.                                                *)
(***************************************************************************)
ErrRenderPath == <<"ERR: the path of Render.exe is not set correctly">>

ErrNoProject == <<"ERR: the project path is not set">>

ErrBatSave == <<"ERR: failed to save the batch file">>

\* variant: the renderer's path is never looked up on disk
RenderExeExistsUnseen(path) == TRUE

\* Path(self._render_exe_path).exists()
RenderExeExists(path) == \E v \in installed : RenderExe(v) = path

AovDisabledLine == <<"rem", "AOV", "is", "disabled", "in", "the", "UI.">>

\* f"render\\json\\{scene_basename}.json"
AovPresetRelative(scene_file) ==
    <<"render", "\\", "json", "\\">> \o PathStem(scene_file) \o <<".", "json">>

\* variant: the file is looked for in a folder that holds no AOV file
AovPathExistsElsewhere(st, scene_file) == FALSE

\* (self._project_path / aov_preset_relative.replace('\\', '/')).exists()
AovPathExists(st, scene_file) ==
    LET parts == PathParts(ReplaceAtom(AovPresetRelative(scene_file), "\\", "/"))
        d     == DirOf(st.project_path)
    IN  /\ Len(parts) = 3
        /\ parts[1] = <<"render">>
        /\ parts[2] = <<"json">>
        /\ st.json_dir[d]
        /\ parts[3] \in DOMAIN st.aov_fs[d]

\* variant: a branch that never looks for the file
AovOutcomeFileUnseen(st, settings, scene_file) ==
    IF ~settings.aov_enabled THEN "disabled" ELSE "enabled"

\* the three-way branch: which AOV fragment the script gets
AovOutcome(st, settings, scene_file) ==
    IF ~settings.aov_enabled THEN "disabled"
    ELSE IF ~AovPathExists(st, scene_file) THEN "missing"
    ELSE "enabled"

\* aov_command_line
AovCommandLine(st, settings, scene_file) ==
    CASE AovOutcome(st, settings, scene_file) = "disabled" -> AovDisabledLine
      [] AovOutcome(st, settings, scene_file) = "missing" ->
           <<"rem", "AOV", "preset", "file", "not", "found:">>
               \o AovPresetRelative(scene_file)
      [] OTHER ->
           <<"-rsa", Quote, "%PROJECT_PATH%", "\\", "%AOV_PRESET%", Quote, "^">>

\* variant: the assignment stays active in every outcome
AovPresetSettingLineActive(st, settings, scene_file) ==
    <<"SET", "AOV_PRESET=", Quote>> \o AovPresetRelative(scene_file) \o <<Quote>>

\* aov_preset_setting_line
AovPresetSettingLine(st, settings, scene_file) ==
    LET set == <<"SET", "AOV_PRESET=", Quote>> \o AovPresetRelative(scene_file)
                   \o <<Quote>>
    IN  CASE AovOutcome(st, settings, scene_file) = "disabled" ->
               <<"rem">> \o set \o <<"(AOV disabled)">>
          [] AovOutcome(st, settings, scene_file) = "missing" ->
               <<"rem">> \o set \o <<"(File not found)">>
          [] OTHER -> set

\* settings.get("file_name") or scene_basename
FileNameOf(settings, scene_file) ==
    IF settings.file_name # <<>> THEN settings.file_name ELSE PathStem(scene_file)

Rule == <<"::", "=================================================================">>

EchoRule == <<"echo", "=================================================================">>

\* the f-string of create_batch_file, line by line
Template(st, settings, scene_file) ==
    << <<"@echo", "off">>,
       <<"rem", "(makes paths and file names in Japanese work)">>,
       <<"chcp", "65001", ">", "nul">>,
       <<>>,
       Rule,
       <<"::", "---", "(settings)", "---">>,
       Rule,
       <<>>,
       <<"rem", "(where Maya is)">>,
       <<"SET", "MAYA_RENDERER=", Quote>> \o st.render_exe_path \o <<Quote>>,
       <<>>,
       <<"rem", "(paths of the project and the files)">>,
       <<"SET", "PROJECT_PATH=", Quote>>
           \o JoinParts(ResolveParts(st.project_path, <<>>)) \o <<Quote>>,
       <<"SET", "SCENE_FILE=", Quote, "render", "\\">> \o scene_file \o <<Quote>>,
       AovPresetSettingLine(st, settings, scene_file),
       <<>>,
       <<"rem", "(output settings)">>,
       <<"SET", "OUTPUT_PATH=", Quote, "render", "\\">> \o PathStem(scene_file)
           \o <<Quote>>,
       <<"SET", "FILENAME=", Quote>> \o FileNameOf(settings, scene_file) \o <<Quote>>,
       <<>>,
       <<"rem", "(render settings in detail)">>,
       <<"SET", "RENDERER_ENGINE=", "arnold">>,
       <<"SET", "START_FRAME=", ToString(settings.start_frame)>>,
       <<"SET", "END_FRAME=", ToString(settings.end_frame)>>,
       <<"SET", "RESOLUTION_X=", ToString(settings.width)>>,
       <<"SET", "RESOLUTION_Y=", ToString(settings.height)>>,
       <<"SET", "CAMERA=", Quote>> \o settings.camera \o <<Quote>>,
       <<>>,
       <<>>,
       Rule,
       <<"::", "---", "(the render command)", "---">>,
       Rule,
       <<>>,
       <<"echo", "Starting", "Maya", "Batch", "Render...">>,
       <<"echo", "Project:", "%PROJECT_PATH%">>,
       <<"echo", "Scene:", "%SCENE_FILE%">>,
       EchoRule,
       <<>>,
       <<"%MAYA_RENDERER%", "^">>,
       <<"-r", "%RENDERER_ENGINE%", "^">>,
       <<"-proj", "%PROJECT_PATH%", "^">>,
       <<"-s", "%START_FRAME%", "-e", "%END_FRAME%", "^">>,
       <<"-x", "%RESOLUTION_X%", "-y", "%RESOLUTION_Y%", "^">>,
       <<"-cam", "%CAMERA%", "^">>,
       <<"-rd", Quote, "%PROJECT_PATH%", "\\", "%OUTPUT_PATH%", Quote, "^">>,
       <<"-im", Quote, "%FILENAME%", Quote, "^">>,
       <<"-ai:as", ToString(settings.cam_aa), "^">>,
       <<"-ai:hs", ToString(settings.diffuse), "^">>,
       <<"-ai:gs", ToString(settings.specular), "^">>,
       <<"-ai:rs", ToString(settings.transmission), "^">>,
       <<"-ai:bssrdfs", ToString(settings.sss), "^">>,
       AovCommandLine(st, settings, scene_file),
       <<Quote, "%PROJECT_PATH%", "\\", "%SCENE_FILE%", Quote>>,
       <<>>,
       EchoRule,
       <<"echo", "Render", "process", "finished.">>,
       <<"echo", "Press", "any", "key", "to", "exit.">>,
       <<"pause">> >>

\* f"render_{scene_basename}.bat"
BatName(scene_file) == <<"render_">> \o PathStem(scene_file) \o <<".", "bat">>

\* what open(.., encoding="cp932", errors='ignore') keeps of a line: the atoms
\* cp932 can encode (every atom of the model's scripts can be encoded)
Cp932(line) == SelectSeq(line, LAMBDA a : a # "<not in cp932>")

EncodeScript(script) == [i \in 1..Len(script) |-> Cp932(script[i])]

LogBanner == <<"==================================================">>

LogBatCreated(name) == <<"LOG: batch file created">> \o name

LogBatContents == <<"--- (contents of the batch file) ---">>

LogBatEnd == <<"--- (end of the contents) ---">>

\* the batch file is written in one f.write(); the model follows a failure of
\* open() (nothing written) and of the write (the file is left empty)
IoBat == {IoOk, Io("open", 0), Io("write", 0)}

create_batch_file(st, settings, scene_file, io) ==
    IF st.render_exe_path = <<>> \/ ~RenderExeExists(st.render_exe_path)
    THEN add_error(st, ErrRenderPath)
    ELSE IF st.project_path = NoProject
    THEN add_error(st, ErrNoProject)
    ELSE LET d        == DirOf(st.project_path)
             template == Template(st, settings, scene_file)
             name     == BatName(scene_file)
         IN  CASE io.fail = "open" -> add_error(st, ErrBatSave)
               [] io.fail = "write" ->
                    add_error(
                      [st EXCEPT !.bat_fs[d] =
                          (name :> SubSeq(EncodeScript(template), 1, io.k)) @@ @],
                      ErrBatSave)
               [] OTHER ->
                    [st EXCEPT
                       !.bat_fs[d] = (name :> EncodeScript(template)) @@ @,
                       !.log = @ \o <<LogBanner, LogBatCreated(name), LogBanner,
                                      LogBatContents>>
                                 \o template \o <<LogBatEnd>>]

(***************************************************************************)
(* create_batch_file.py, the stand-alone script: the arguments it gives    *)
(* the renderer for one scene, from its RENDER_SETTINGS.                   *)
(***************************************************************************)
\* the values RENDER_SETTINGS may be edited to
StandaloneSettings ==
    [ start_frame : {1}, end_frame : {5}, width : {1920}, height : {1080},
      format : {"exr"}, image_name_prefix : {<<>>, <<"shot_010">>},
      cam_aa : {3}, diffuse : {2}, specular : {2}, transmission : {2}, sss : {2},
      motion_blur : BOOLEAN, ray_tracing : BOOLEAN,
      reflection_depth : DepthValues, refraction_depth : DepthValues ]

\* variant: the depths are passed whatever the ray-tracing setting is
StandaloneDepthArgsUngated(rs) ==
    <<"-ai:td", ToString(rs.reflection_depth),
      "-ai:rfr", ToString(rs.refraction_depth)>>

\* if RENDER_SETTINGS["ray_tracing"]: args.extend(...)
StandaloneDepthArgs(rs) ==
    IF rs.ray_tracing
    THEN <<"-ai:td", ToString(rs.reflection_depth),
           "-ai:rfr", ToString(rs.refraction_depth)>>
    ELSE <<>>

\* args, for the scene file render/<scene> of the project and a suffix
StandaloneArgs(rs, project, scene, aov_exists, suffix) ==
    LET stem   == PathStem(scene)
        root   == JoinParts(ResolveParts(project, <<>>))
        prefix == IF rs.image_name_prefix # <<>> THEN rs.image_name_prefix ELSE stem
    IN  <<"-r", "arnold", "-proj", Quote>> \o root \o <<Quote>>
        \o <<"-rd", Quote>> \o root \o <<"\\", "render", "\\">> \o stem \o <<Quote>>
        \o <<"-s", ToString(rs.start_frame), "-e", ToString(rs.end_frame),
             "-x", ToString(rs.width), "-y", ToString(rs.height)>>
        \o <<"-im", Quote>> \o prefix \o <<"_", suffix, Quote>>
        \o <<"-of", rs.format>>
        \o (IF aov_exists
            THEN <<"-rsa", Quote>> \o root
                     \o <<"\\", "render", "\\", "json", "\\">> \o stem
                     \o <<".", "json", Quote>>
            ELSE <<>>)
        \o <<"-ai:as", ToString(rs.cam_aa), "-ai:hs", ToString(rs.diffuse),
             "-ai:gs", ToString(rs.specular), "-ai:rs", ToString(rs.transmission),
             "-ai:bssrdfs", ToString(rs.sss),
             "-ai:mben", IF rs.motion_blur THEN "1" ELSE "0">>
        \o StandaloneDepthArgs(rs)
        \o <<Quote>> \o root \o <<"\\", "render", "\\">> \o scene \o <<Quote>>

(***************************************************************************)
(* The project folder.                                                     *)
(***************************************************************************)
LogNoProjectPath == <<"LOG: the project path is not set">>

LogUpdatingScenes == <<"LOG: updating the list of scene files">>

LogRenderFolderMade == <<"LOG: render folder not found, created">>

LogScenesFound(files) == <<"LOG: scene files found", ToString(Len(files))>>

\* mkdirFails: whether render_folder.mkdir() raises.  Publishing the list
\* makes the view select its first row, and the controller then loads the
\* AOVs of that scene (view.update_render_file_list,
\* controller._on_scene_selection_changed).
_update_render_files(st, emitRaises, mkdirFails) ==
    IF st.project_path = NoProject THEN add_log(st, LogNoProjectPath)
    ELSE LET d  == DirOf(st.project_path)
             s1 == add_log(st, LogUpdatingScenes)
         IN  IF ~s1.render_dir[d] /\ mkdirFails
             THEN [s1 EXCEPT !.raised = TRUE]
             ELSE LET s2 == IF ~s1.render_dir[d]
                            THEN add_log([s1 EXCEPT !.render_dir[d] = TRUE],
                                         LogRenderFolderMade)
                            ELSE s1
                      files == SortedNames(Glob(Scenes(d), "mb")
                                               \cup Glob(Scenes(d), "ma"))
                      s3 == add_log([s2 EXCEPT !.render_files = files],
                                    LogScenesFound(files))
                  IN  IF files = <<>> THEN s3
                      ELSE load_aovs_for_scene(s3, files[1], emitRaises)

refresh_project_files(st, emitRaises, mkdirFails) ==
    LET s1 == _update_render_files(st, emitRaises, mkdirFails)
    IN  IF s1.raised THEN s1 ELSE _update_aov_json_files(s1)

\* Path.as_posix()
RECURSIVE AsPosix(_)
AsPosix(parts) ==
    IF parts = <<>> THEN <<>>
    ELSE IF Len(parts) = 1 THEN Head(parts)
    ELSE Head(parts) \o <<"/">> \o AsPosix(Tail(parts))

\* the settings file holds {"last_project_path": <path>}; the model keeps the
\* path alone.  self._settings_file_path is set once main.py has called
\* set_settings_file_path, which is before any call of set_project_path.
_save_settings(st) ==
    IF st.project_path # NoProject
    THEN [st EXCEPT !.settings_file = AsPosix(st.project_path)]
    ELSE st

LogProjectPathSet(parts) == <<"LOG: project path set">> \o AsPosix(parts)

ErrNotAFolder(path) == <<"ERR: the given path is not a folder">> \o path

\* set_project_path, were a rejected path to clear the scene list
set_project_pathClearing(st, path, emitRaises, mkdirFails) ==
    IF path = <<>> THEN st
    ELSE LET new_path == PathParts(path)
         IN  IF IsDir(new_path) /\ new_path # st.project_path
             THEN refresh_project_files(
                    _save_settings(
                      add_log([st EXCEPT !.project_path = new_path],
                              LogProjectPathSet(new_path))),
                    emitRaises, mkdirFails)
             ELSE IF ~IsDir(new_path)
                  THEN add_error([st EXCEPT !.render_files = <<>>],
                                 ErrNotAFolder(path))
             ELSE st

set_project_path(st, path, emitRaises, mkdirFails) ==
    IF path = <<>> THEN st
    ELSE LET new_path == PathParts(path)
         IN  IF IsDir(new_path) /\ new_path # st.project_path
             THEN refresh_project_files(
                    _save_settings(
                      add_log([st EXCEPT !.project_path = new_path],
                              LogProjectPathSet(new_path))),
                    emitRaises, mkdirFails)
             ELSE IF ~IsDir(new_path) THEN add_error(st, ErrNotAFolder(path))
             ELSE st

ErrSettingsLoad == <<"ERR: failed to read the settings file">>

load_settings(st, emitRaises, mkdirFails) ==
    IF st.settings_file = NoFile THEN st
    ELSE IF st.settings_file = CorruptFile THEN add_error(st, ErrSettingsLoad)
    ELSE LET r == set_project_path(st, st.settings_file, emitRaises, mkdirFails)
         IN  IF r.raised THEN add_error([r EXCEPT !.raised = FALSE], ErrSettingsLoad)
             ELSE r

LogRenderExeFound(path) == <<"LOG: Render.exe found">> \o path

ErrRenderExeNotFound == <<"ERR: Render.exe was not found">>

find_and_set_render_path(st) ==
    LET found == installed \cap MayaVersions
    IN  IF found # {}
        THEN LET version == CHOOSE v \in found : \A w \in found : w <= v
             IN  add_log([st EXCEPT !.render_exe_path = RenderExe(version)],
                         LogRenderExeFound(RenderExe(version)))
        ELSE add_error(st, ErrRenderExeNotFound)

(***************************************************************************)
(* The image size and its preset.  The catalogue (JSON/image_presets.json) *)
(* is a dict of preset name -> {"width", "height"}; the model keeps it as  *)
(* the sequence of its <<name, values>> members, in the file's order.      *)
(***************************************************************************)
PresetsStandard ==
    << <<"HD_720", [width |-> 1280, height |-> 720]>>,
       <<"HD_1080", [width |-> 1920, height |-> 1080]>> >>

\* the presets file: missing or no JSON text ...
PresetsFileUnreadable == [readable |-> FALSE, doc |-> [image_presets |-> <<>>]]

\* ... the catalogue ...
PresetsFileStandard == [readable |-> TRUE, doc |-> [image_presets |-> PresetsStandard]]

\* ... or a JSON object without the key "image_presets"
PresetsFileNoKey == [readable |-> TRUE, doc |-> [image_formats |-> <<"exr">>]]

PresetFiles == {PresetsFileUnreadable, PresetsFileStandard, PresetsFileNoKey}

LogPresetsLoaded == <<"LOG: presets loaded">>

ErrPresetsLoad == <<"ERR: failed to read the presets file">>

load_presets_from_file(st, file) ==
    IF ~file.readable THEN add_error(st, ErrPresetsLoad)
    ELSE add_log([st EXCEPT !.image_presets =
                     IF "image_presets" \in DOMAIN file.doc
                     THEN file.doc.image_presets
                     ELSE <<>>],
                 LogPresetsLoaded)

\* dict.get(name): the values of the preset of that name, {} for None
PresetGet(presets, name) ==
    IF \E i \in 1..Len(presets) : presets[i][1] = name
    THEN presets[CHOOSE i \in 1..Len(presets) : presets[i][1] = name][2]
    ELSE <<>>

LogPresetApplied(name) == <<"LOG: preset applied", name>>

set_image_size_from_preset(st, preset_name) ==
    IF preset_name = "" THEN st
    ELSE LET preset == PresetGet(st.image_presets, preset_name)
         IN  IF DOMAIN preset = {} THEN st
             ELSE LET new_width  == IF "width" \in DOMAIN preset
                                    THEN preset.width ELSE 0
                      new_height == IF "height" \in DOMAIN preset
                                    THEN preset.height ELSE 0
                      s1 == [st EXCEPT !.current_preset = preset_name]
                  IN  IF s1.image_width # new_width \/ s1.image_height # new_height
                      THEN add_log([s1 EXCEPT !.image_width = new_width,
                                              !.image_height = new_height],
                                   LogPresetApplied(preset_name))
                      ELSE s1

apply_default_settings(st) == set_image_size_from_preset(st, st.current_preset)

LogPresetCustom == <<"LOG: the size was changed by hand, the preset is 'Custom'">>

\* next((name for name, values in presets.items() if values == size), "Custom")
MatchingPresetName(presets, size) ==
    LET hit == {i \in 1..Len(presets) : presets[i][2] = size}
    IN  IF hit = {} THEN "Custom"
        ELSE presets[CHOOSE i \in hit : \A j \in hit : i <= j][1]

_check_and_update_preset_selection(st) ==
    LET current_size == [width |-> st.image_width, height |-> st.image_height]
        matching_preset_name == MatchingPresetName(st.image_presets, current_size)
    IN  IF st.current_preset # matching_preset_name
        THEN LET s1 == [st EXCEPT !.current_preset = matching_preset_name]
             IN  IF matching_preset_name = "Custom" THEN add_log(s1, LogPresetCustom)
                 ELSE s1
        ELSE st

\* int(text) for the texts of the model; a text outside it is a ValueError
IntTexts == {"720", "1080", "1280", "1920"}

PyInt(text) ==
    CASE text = "720" -> 720
      [] text = "1080" -> 1080
      [] text = "1280" -> 1280
      [] OTHER -> 1920

set_image_width(st, width_text) ==
    IF width_text # "" /\ width_text \notin IntTexts THEN st
    ELSE LET width == IF width_text # "" THEN PyInt(width_text) ELSE 0
         IN  IF st.image_width # width
             THEN _check_and_update_preset_selection([st EXCEPT !.image_width = width])
             ELSE st

set_image_height(st, height_text) ==
    IF height_text # "" /\ height_text \notin IntTexts THEN st
    ELSE LET height == IF height_text # "" THEN PyInt(height_text) ELSE 0
         IN  IF st.image_height # height
             THEN _check_and_update_preset_selection([st EXCEPT !.image_height = height])
             ELSE st

(***************************************************************************)
(* Init: the state MainModel.__init__ leaves, in a world where P holds     *)
(* two scenes and no AOV file yet.                                         *)
(***************************************************************************)
NoCall == Call("init", <<>>, <<>>, <<>>, NoSettings, IoOk)

Init ==
    /\ pc = "settings"
    /\ render_exe_path = <<>>
    /\ project_path = NoProject
    /\ render_files = <<>>
    /\ aov_json_files = <<>>
    /\ loaded_aovs = PyList(<<>>)
    /\ image_presets = <<>>
    /\ image_width = 0
    /\ image_height = 0
    /\ current_preset = "HD_720"
    /\ view_json_list = <<>>
    /\ installed = InstallableVersions
    /\ render_dir = [d \in DirNames |-> d = "P"]
    /\ json_dir = [d \in DirNames |-> FALSE]
    /\ aov_fs = [d \in DirNames |-> EmptyFn]
    /\ bat_fs = [d \in DirNames |-> EmptyFn]
    /\ settings_file \in {NoFile, CorruptFile, <<"C:", "/", "P">>}
    /\ log = <<>>
    /\ errors = <<>>
    /\ raised = FALSE
    /\ last = NoCall

(***************************************************************************)
(* Actions: main.py's start-up calls, then the calls the controller makes  *)
(* from the event loop, with any argument of the input sets.               *)
(***************************************************************************)
\* A failure is chosen only where a call can meet it: the signal can raise
\* only for an "aovs" value that is no list, mkdir only for a missing folder.
EmitMayRaise ==
    \E d \in DirNames : \E n \in DOMAIN aov_fs[d] :
        LET r == JsonLoad(aov_fs[d][n])
        IN  r.ok /\ r.val.k = "obj" /\ DictGet(r.val, "aovs", PyList(<<>>)).k \in {"str", "obj"}

MkdirMayFail == \E d \in DirNames : ~render_dir[d]

\* main.py: model.set_settings_file_path(SETTINGS_FILE)
SetSettingsFilePath ==
    /\ pc = "settings"
    /\ \E emitRaises \in BOOLEAN :
         /\ emitRaises => EmitMayRaise
         /\ Commit(load_settings(Here, emitRaises, FALSE))
    /\ pc' = "render"
    /\ last' = Call("set_settings_file_path", <<>>, <<>>, <<>>, NoSettings, IoOk)
    /\ UNCHANGED installed

\* main.py: model.find_and_set_render_path()
FindAndSetRenderPath ==
    /\ pc = "render"
    /\ Commit(find_and_set_render_path(Here))
    /\ pc' = "presets"
    /\ last' = Call("find_and_set_render_path", <<>>, <<>>, <<>>, NoSettings, IoOk)
    /\ UNCHANGED installed

\* main.py: model.load_presets_from_file(PRESETS_FILE)
LoadPresetsFromFileFrom(files) ==
    /\ pc = "presets"
    /\ \E file \in files : Commit(load_presets_from_file(Here, file))
    /\ pc' = "defaults"
    /\ last' = Call("load_presets_from_file", <<>>, <<>>, <<>>, NoSettings, IoOk)
    /\ UNCHANGED installed

LoadPresetsFromFile == LoadPresetsFromFileFrom(PresetFiles)

\* the store and the compiler are checked with the catalogue in place: they
\* read nothing of the image size the model keeps
LoadPresetsStandard == LoadPresetsFromFileFrom({PresetsFileStandard})

\* main.py: model.apply_default_settings()
ApplyDefaultSettings ==
    /\ pc = "defaults"
    /\ Commit(apply_default_settings(Here))
    /\ pc' = "ui"
    /\ last' = Call("apply_default_settings", <<>>, <<>>, <<>>, NoSettings, IoOk)
    /\ UNCHANGED installed

\* what the preset box and the size fields can hand to the model
PresetNameInputs == {"", "HD_720", "HD_1080", "Custom", "4K"}

WidthInputs == {"", "abc", "1280", "1920"}

HeightInputs == {"", "abc", "720", "1080"}

\* controller.py: preset_combo.currentTextChanged
SetImageSizeFromPreset ==
    /\ pc = "ui"
    /\ \E preset_name \in PresetNameInputs :
         /\ Commit(set_image_size_from_preset(Here, preset_name))
         /\ last' = Call("set_image_size_from_preset", <<preset_name>>, <<>>, <<>>,
                         NoSettings, IoOk)
    /\ UNCHANGED <<pc, installed>>

\* controller.py: width_edit.textChanged
SetImageWidth ==
    /\ pc = "ui"
    /\ \E width_text \in WidthInputs :
         /\ Commit(set_image_width(Here, width_text))
         /\ last' = Call("set_image_width", <<width_text>>, <<>>, <<>>,
                         NoSettings, IoOk)
    /\ UNCHANGED <<pc, installed>>

\* controller.py: height_edit.textChanged
SetImageHeight ==
    /\ pc = "ui"
    /\ \E height_text \in HeightInputs :
         /\ Commit(set_image_height(Here, height_text))
         /\ last' = Call("set_image_height", <<height_text>>, <<>>, <<>>,
                         NoSettings, IoOk)
    /\ UNCHANGED <<pc, installed>>

\* controller.py: the folder dialog's choice goes to model.set_project_path
SetProjectPathFrom(paths) ==
    /\ pc = "ui"
    /\ \E path \in paths, emitRaises \in BOOLEAN, mkdirFails \in BOOLEAN :
         /\ emitRaises => EmitMayRaise
         /\ mkdirFails => MkdirMayFail
         /\ Commit(set_project_path(Here, path, emitRaises, mkdirFails))
         /\ last' = Call("set_project_path", path, <<>>, <<>>, NoSettings, IoOk)
    /\ UNCHANGED <<pc, installed>>

SetProjectPath == SetProjectPathFrom(PathInputs)

\* the compiler is checked with one project folder (and the path that is no
\* folder): it reads the project path and nothing else of a second folder
CompilePaths == PathInputs \ {<<"C:", "/", "Q">>}

SetProjectPathCompile == SetProjectPathFrom(CompilePaths)

RefreshProjectFiles ==
    /\ pc = "ui"
    /\ \E emitRaises \in BOOLEAN, mkdirFails \in BOOLEAN :
         /\ emitRaises => EmitMayRaise
         /\ mkdirFails => MkdirMayFail
         /\ Commit(refresh_project_files(Here, emitRaises, mkdirFails))
    /\ last' = Call("refresh_project_files", <<>>, <<>>, <<>>, NoSettings, IoOk)
    /\ UNCHANGED <<pc, installed>>

\* The controller passes the scene selected in the list the model published
\* (controller.py, view.get_selected_scene); a caller may pass no name, and
\* any name while no project is chosen.
Selectable(scene) ==
    \/ scene = <<>>
    \/ project_path = NoProject
    \/ scene \in Range(render_files)

LoadAovsForScene ==
    /\ pc = "ui"
    /\ \E scene \in SceneInputs, emitRaises \in BOOLEAN :
         /\ Selectable(scene)
         /\ emitRaises => EmitMayRaise
         /\ Commit(load_aovs_for_scene(Here, scene, emitRaises))
         /\ last' = Call("load_aovs_for_scene", <<>>, scene, <<>>, NoSettings, IoOk)
    /\ UNCHANGED <<pc, installed>>

\* a failing step is chosen only where the call reaches it
SaveAovsForScene ==
    /\ pc = "ui"
    /\ \E scene \in SceneInputs, aov_list \in AovLists, io \in IoSave :
         /\ Selectable(scene)
         /\ (project_path = NoProject \/ scene = <<>>) => io = IoOk
         /\ io.fail = "mkdir" => ~json_dir[DirOf(project_path)]
         /\ Commit(save_aovs_for_scene(Here, scene, aov_list, io))
         /\ last' = Call("save_aovs_for_scene", <<>>, scene, aov_list, NoSettings, io)
    /\ UNCHANGED <<pc, installed>>

\* create_batch_file gets past its two checks
Compiles == /\ render_exe_path # <<>>
            /\ RenderExeExists(render_exe_path)
            /\ project_path # NoProject

CreateBatchFile ==
    /\ pc = "ui"
    /\ \E settings \in SettingsSet, scene \in SceneInputs \ {<<>>}, io \in IoBat :
         /\ Selectable(scene)
         \* a call that writes nothing reads neither its settings nor the
         \* storage: one choice of them stands for all
         /\ ~Compiles => io = IoOk
         /\ (~Compiles \/ io.fail # "none") => settings = NoSettings
         /\ Commit(create_batch_file(Here, settings, scene, io))
         /\ last' = Call("create_batch_file", <<>>, scene, <<>>, settings, io)
    /\ UNCHANGED <<pc, installed>>

\* what an external change leaves of the model's variables
EnvFrame ==
    /\ log' = <<>>
    /\ errors' = <<>>
    /\ raised' = FALSE
    /\ UNCHANGED <<pc, render_exe_path, project_path, render_files, aov_json_files,
                   loaded_aovs, image_presets, image_width, image_height,
                   current_preset, view_json_list, render_dir, bat_fs,
                   settings_file>>

\* the AOV file other programs touch
EnvNames == {JsonName(SceneS_ma)}

\* the folders other programs write to
EnvDirs == {"P"}

\* another program writes a file into render/json
EnvWriteFrom(names, docs) ==
    /\ \E d \in EnvDirs, name \in names, doc \in docs :
         /\ render_dir[d]
         /\ json_dir' = [json_dir EXCEPT ![d] = TRUE]
         /\ aov_fs' = [aov_fs EXCEPT ![d] = (name :> doc) @@ @]
         /\ last' = Call("env_write", <<d>>, name, doc, NoSettings, IoOk)
    /\ UNCHANGED installed
    /\ EnvFrame

\* another program writes an AOV file
EnvWriteAovFile == EnvWriteFrom(EnvNames, ExternalDocs)

\* another program removes a file of render/json
EnvRemoveFrom(names) ==
    /\ \E d \in EnvDirs, name \in names :
         /\ name \in DOMAIN aov_fs[d]
         /\ aov_fs' = [aov_fs EXCEPT
                         ![d] = [n \in DOMAIN aov_fs[d] \ {name} |-> aov_fs[d][n]]]
         /\ last' = Call("env_remove", <<d>>, name, <<>>, NoSettings, IoOk)
    /\ UNCHANGED <<installed, json_dir>>
    /\ EnvFrame

\* another program removes an AOV file
EnvRemoveAovFile == EnvRemoveFrom(EnvNames)

\* the files other programs keep in render/json beside the scenes' own: two
\* AOV files whose names differ by case, and a file that is no JSON file
ListedNames == { <<"A", ".", "json">>, <<"a", ".", "json">>, <<"b", ".", "bat">> }

ListedDocs == {DocNoKey}

EnvWriteListedFile == EnvWriteFrom(ListedNames, ListedDocs)

EnvRemoveListedFile == EnvRemoveFrom(ListedNames)

\* a Maya version is uninstalled (before or after the program looked for it)
EnvUninstallMaya ==
    /\ \E v \in installed :
         /\ installed' = installed \ {v}
         /\ last' = Call("env_uninstall", <<>>, <<>>, <<>>, NoSettings, IoOk)
    /\ UNCHANGED <<json_dir, aov_fs>>
    /\ EnvFrame

(***************************************************************************)
(* The program is checked in two halves, which share the start-up, the     *)
(* choice of the project folder and the changes other programs make.       *)
(* SpecStore: the AOV store (every call but create_batch_file).            *)
(* SpecCompile: the render-job compiler (create_batch_file, with the AOV   *)
(* files written by save_aovs_for_scene and by other programs).            *)
(***************************************************************************)
NextStore ==
    \/ SetSettingsFilePath
    \/ FindAndSetRenderPath
    \/ LoadPresetsStandard
    \/ ApplyDefaultSettings
    \/ SetProjectPath
    \/ RefreshProjectFiles
    \/ LoadAovsForScene
    \/ SaveAovsForScene
    \/ EnvWriteAovFile
    \/ EnvRemoveAovFile

SpecStore == Init /\ [][NextStore]_vars

NextCompile ==
    \/ SetSettingsFilePath
    \/ FindAndSetRenderPath
    \/ LoadPresetsStandard
    \/ ApplyDefaultSettings
    \/ SetProjectPathCompile
    \/ CreateBatchFile
    \/ EnvWriteAovFile
    \/ EnvRemoveAovFile
    \/ EnvUninstallMaya

SpecCompile == Init /\ [][NextCompile]_vars

\* SpecList: the lists the model publishes, over a render/json folder that
\* holds several files (project selections, refreshes and AOV saves), with
\* one project folder as in SpecCompile; SpecStore follows a change of folder.
NextList ==
    \/ SetSettingsFilePath
    \/ FindAndSetRenderPath
    \/ LoadPresetsStandard
    \/ ApplyDefaultSettings
    \/ SetProjectPathCompile
    \/ RefreshProjectFiles
    \/ SaveAovsForScene
    \/ EnvWriteListedFile
    \/ EnvRemoveListedFile

SpecList == Init /\ [][NextList]_vars

\* SpecJob: AOV exports followed by compilations, with one project folder,
\* reloads, and AOV files removed by other programs
NextJob ==
    \/ SetSettingsFilePath
    \/ FindAndSetRenderPath
    \/ LoadPresetsStandard
    \/ ApplyDefaultSettings
    \/ SetProjectPathCompile
    \/ RefreshProjectFiles
    \/ SaveAovsForScene
    \/ CreateBatchFile
    \/ EnvRemoveAovFile

SpecJob == Init /\ [][NextJob]_vars

\* SpecImage: the image size and its preset, for every presets file
NextImage ==
    \/ SetSettingsFilePath
    \/ FindAndSetRenderPath
    \/ LoadPresetsFromFile
    \/ ApplyDefaultSettings
    \/ SetImageSizeFromPreset
    \/ SetImageWidth
    \/ SetImageHeight

SpecImage == Init /\ [][NextImage]_vars

\* the scene names a caller may pass to load_aovs_for_scene and to
\* save_aovs_for_scene: file names, and names with separators, parent
\* segments and drives
SceneNames ==
    { SceneS_ma,
      <<"s", ".", "tar", ".", "ma">>,
      <<"s">>,
      <<".", "ma">>,
      <<".", ".">>,
      <<".">>,
      <<"s", "/">>,
      <<"s", ".", "ma", "/", ".">>,
      <<"sub", "/", "s", ".", "ma">>,
      <<"sub", "\\", "s", ".", "ma">>,
      <<".", ".", "/", "s", ".", "ma">>,
      <<".", ".", "\\", ".", ".", "\\", "s", ".", "ma">>,
      <<"/", "s", ".", "ma">>,
      <<"sub", "/", ".", ".">>,
      <<"C:", "/", "Q", "/", "s", ".", "ma">>,
      <<"D:", "s", ".", "ma">>,
      <<"D:">>,
      <<"sub", "/", "C:", "s", ".", "ma">>,
      <<"sub", "/", "D:", "s", ".", "ma">>,
      <<".", "/", "D:", "s", ".", "ma">>,
      <<"sub", "/", "D:", "/", "s", ".", "ma">> }

\* load_aovs_for_scene and save_aovs_for_scene, up to the path of the AOV
\* file they go on to read or write
ResolveJsonPath ==
    /\ pc = "ui"
    /\ project_path # NoProject
    /\ \E scene \in SceneNames :
         last' = Call("json_path", JoinParts(JsonPath(project_path, scene)),
                      scene, <<>>, NoSettings, IoOk)
    /\ log' = <<>>
    /\ errors' = <<>>
    /\ raised' = FALSE
    /\ UNCHANGED <<pc, render_exe_path, project_path, render_files, aov_json_files,
                   loaded_aovs, image_presets, image_width, image_height,
                   current_preset, view_json_list, installed, render_dir,
                   json_dir, aov_fs, bat_fs, settings_file>>

\* SpecPath: the path of a scene's AOV file, for every project folder and
\* every scene name
NextPath ==
    \/ SetSettingsFilePath
    \/ FindAndSetRenderPath
    \/ LoadPresetsStandard
    \/ ApplyDefaultSettings
    \/ SetProjectPath
    \/ ResolveJsonPath

SpecPath == Init /\ [][NextPath]_vars

(***************************************************************************)
(* What a call of create_batch_file left behind: its arguments (last), the *)
(* errors it reported and the batch file it wrote.                         *)
(***************************************************************************)
Called == last.op = "create_batch_file"

Wrote == Called /\ errors = <<>>

Script == bat_fs[DirOf(project_path)][BatName(last.scene)]

FlagOn == last.settings.aov_enabled

\* <project>/render/json/<stem>.json exists
FileThere == AovFileExists(Here, DirOf(project_path), JsonName(last.scene))

\* the places of an atom in a script
Occurrences(script, atom) ==
    UNION { { <<i, j>> : j \in { k \in 1..Len(script[i]) : script[i][k] = atom } }
            : i \in 1..Len(script) }

HasRsa(script) == Occurrences(script, "-rsa") # {}

IsComment(line) == line # <<>> /\ line[1] = "rem"

SaysDisabled(script) ==
    \E i \in 1..Len(script) : IsComment(script[i]) /\ "disabled" \in Range(script[i])

SaysNotFound(script) ==
    \E i \in 1..Len(script) :
        IsComment(script[i]) /\ {"not", "found:"} \subseteq Range(script[i])

\* C1: every combination of the flag and the file's existence gives exactly
\* one of the outcomes Disabled, Missing-file, Enabled-and-present; the
\* Disabled and Missing-file scripts hold no -rsa, and the Missing-file
\* script holds a comment that the file was not found.
C1_ThreeWayBranch ==
    Wrote =>
        /\ ~FlagOn =>
             SaysDisabled(Script) /\ ~SaysNotFound(Script) /\ ~HasRsa(Script)
        /\ (FlagOn /\ ~FileThere) =>
             SaysNotFound(Script) /\ ~SaysDisabled(Script) /\ ~HasRsa(Script)
        /\ (FlagOn /\ FileThere) =>
             HasRsa(Script) /\ ~SaysDisabled(Script) /\ ~SaysNotFound(Script)

\* a script written with the flag on and no AOV file
C1_MissingFileScript == Wrote /\ FlagOn /\ ~FileThere /\ SaysNotFound(Script)

(***************************************************************************)
(* What the script's command line names once cmd.exe has put the variables *)
(* in: SET NAME=text gives NAME the whole text after "=", and %NAME% is    *)
(* replaced by it.                                                         *)
(***************************************************************************)
VarAssign == [ v \in {"%PROJECT_PATH%", "%AOV_PRESET%", "%SCENE_FILE%"} |->
                 CASE v = "%PROJECT_PATH%" -> "PROJECT_PATH="
                   [] v = "%AOV_PRESET%" -> "AOV_PRESET="
                   [] OTHER -> "SCENE_FILE=" ]

\* the lines of the script that assign to a variable
Assignments(script, name) ==
    { i \in 1..Len(script) :
        Len(script[i]) >= 2 /\ script[i][1] = "SET" /\ script[i][2] = name }

ValueOf(script, v) ==
    LET i == CHOOSE i \in Assignments(script, VarAssign[v]) : TRUE
    IN  SubSeq(script[i], 3, Len(script[i]))

Expand(script, text) ==
    Flatten([ k \in 1..Len(text) |->
                IF text[k] \in DOMAIN VarAssign
                     /\ Assignments(script, VarAssign[text[k]]) # {}
                THEN ValueOf(script, text[k])
                ELSE <<text[k]>> ])

\* what follows -rsa on its line, without the line's continuation mark
RsaArgument(script) ==
    LET p    == CHOOSE p \in Occurrences(script, "-rsa") : TRUE
        line == script[p[1]]
        end  == IF Last(line) = "^" THEN Len(line) - 1 ELSE Len(line)
    IN  SubSeq(line, p[2] + 1, end)

\* str((project / "render" / "json" / "<stem>.json").resolve())
SceneJsonPath ==
    JoinParts(ResolveParts(project_path, <<>>)
                  \o << <<"render">>, <<"json">>, JsonName(last.scene) >>)

\* C2: with the flag on and <project>/render/json/<stem>.json present, the
\* script holds exactly one -rsa, an active assignment of the AOV path, and
\* the -rsa argument is the resolved path of the scene's own JSON file
\* (bare or in one pair of quotes).
C2_RsaNamesSceneJson ==
    (Wrote /\ FlagOn /\ FileThere) =>
        /\ Cardinality(Occurrences(Script, "-rsa")) = 1
        /\ Assignments(Script, "AOV_PRESET=") # {}
        /\ Expand(Script, RsaArgument(Script))
               \in { SceneJsonPath, <<Quote>> \o SceneJsonPath \o <<Quote>> }

\* sub occurs in line, atom for atom
Contains(line, sub) ==
    \E k \in 0..(Len(line) - Len(sub)) : SubSeq(line, k + 1, k + Len(sub)) = sub

\* the lines of the script that name the scene's AOV file
AovFileLines(script) ==
    { i \in 1..Len(script) : Contains(script[i], JsonName(last.scene)) }

\* C3 (as stated): with the flag off the script holds the comment that AOV
\* is disabled and names no AOV file path anywhere in its text.
C3_DisabledNamesNoAovFile ==
    (Wrote /\ ~FlagOn) => SaysDisabled(Script) /\ AovFileLines(Script) = {}

\* C3 (amended): with the flag off, whether or not the AOV file exists, the
\* script holds the comment that AOV is disabled, no -rsa and no active
\* assignment of AOV_PRESET; the AOV file's path is named in rem comment
\* lines only.
C3_DisabledNamesAovFileInCommentsOnly ==
    (Wrote /\ ~FlagOn) =>
        /\ SaysDisabled(Script)
        /\ ~HasRsa(Script)
        /\ Assignments(Script, "AOV_PRESET=") = {}
        /\ \A i \in AovFileLines(Script) : IsComment(Script[i])

\* a script written with the flag off while the AOV file exists, whose
\* comment names the file
C3_DisabledScriptWithFile ==
    Wrote /\ ~FlagOn /\ FileThere /\ AovFileLines(Script) # {}

\* the renderer's path is known and names a file on disk
RendererOnDisk ==
    render_exe_path # <<>> /\ \E v \in installed : RenderExe(v) = render_exe_path

\* C4: a call of create_batch_file made while the renderer's path is unknown
\* or names no file, or while no project is set, reports the error of that
\* condition (the two errors differ) and produces no script: nothing is
\* logged and no batch file is created or changed.
C4_PreconditionsFailFast ==
    [][ last'.op = "create_batch_file" =>
          /\ ErrRenderPath # ErrNoProject
          /\ ~RendererOnDisk =>
               errors' = <<ErrRenderPath>> /\ log' = <<>> /\ bat_fs' = bat_fs
          /\ (RendererOnDisk /\ project_path = NoProject) =>
               errors' = <<ErrNoProject>> /\ log' = <<>> /\ bat_fs' = bat_fs
      ]_vars

\* a call refused because the renderer is gone, in a project that already
\* holds a batch file
C4_RefusedWithBatchFileOnDisk ==
    /\ Called
    /\ errors = <<ErrRenderPath>>
    /\ project_path # NoProject
    /\ bat_fs[DirOf(project_path)] # EmptyFn

(***************************************************************************)
(* The renderer's command in a script: the line that starts with the       *)
(* renderer and the lines cmd.exe joins to it, each joined by the "^" that *)
(* ends the line before it.                                                *)
(***************************************************************************)
CommandStart(script) ==
    CHOOSE i \in 1..Len(script) : script[i] # <<>> /\ script[i][1] = "%MAYA_RENDERER%"

Continues(line) == line # <<>> /\ Last(line) = "^"

\* the last line of the command: the first one from its start without "^"
CommandEnd(script) ==
    CHOOSE e \in CommandStart(script)..Len(script) :
        /\ ~Continues(script[e])
        /\ \A i \in CommandStart(script)..(e - 1) : Continues(script[i])

\* the command's words, the continuation marks left out
CommandWords(script) ==
    SelectSeq(Flatten(SubSeq(script, CommandStart(script), CommandEnd(script))),
              LAMBDA a : a # "^")

FlagAtoms ==
    {"-r", "-proj", "-s", "-e", "-x", "-y", "-cam", "-rd", "-im", "-ai:as",
     "-ai:hs", "-ai:gs", "-ai:rs", "-ai:bssrdfs", "-rsa"}

FixedFlags ==
    <<"-r", "-proj", "-s", "-e", "-x", "-y", "-cam", "-rd", "-im", "-ai:as",
      "-ai:hs", "-ai:gs", "-ai:rs", "-ai:bssrdfs">>

ScenePathArgument == <<Quote, "%PROJECT_PATH%", "\\", "%SCENE_FILE%", Quote>>

\* C5: in every script, under each AOV outcome, the renderer's invocation is
\* one command: its flags come in the fixed order (the AOV flag last, where
\* it applies), no line of it is a comment, and its final argument is the
\* scene path.
C5_OneCommandEndingWithScene ==
    Wrote =>
        /\ SelectSeq(CommandWords(Script), LAMBDA a : a \in FlagAtoms)
             = FixedFlags \o (IF FlagOn /\ FileThere THEN <<"-rsa">> ELSE <<>>)
        /\ \A i \in CommandStart(Script)..CommandEnd(Script) : ~IsComment(Script[i])
        /\ Script[CommandEnd(Script)] = ScenePathArgument

(***************************************************************************)
(* The AOV store: what a call of save_aovs_for_scene or load_aovs_for_scene *)
(* found and left.                                                         *)
(***************************************************************************)
Saving == last'.op = "save_aovs_for_scene"

Loading == last'.op = "load_aovs_for_scene"

\* the call just made was a save that went through
Saved == last.op = "save_aovs_for_scene" /\ errors = <<>> /\ ~raised

\* C6: a successful save_aovs_for_scene(scene, S) immediately followed by
\* load_aovs_for_scene(scene) in the same project loads a list that holds
\* exactly the names of S, and reports no error.
C6_SaveThenLoad ==
    [][ (Saved /\ Loading /\ last'.scene = last.scene) =>
          /\ loaded_aovs'.k = "list"
          /\ NamesOf(loaded_aovs') = Range(last.aovs)
          /\ errors' = <<>>
      ]_vars

\* two names were saved for a scene and loaded back
C6_TwoNamesLoadedBack ==
    /\ last.op = "load_aovs_for_scene"
    /\ loaded_aovs.k = "list"
    /\ NamesOf(loaded_aovs) = {"N", "beauty"}
    /\ log = <<LogAovLoaded(JsonName(last.scene), loaded_aovs)>>

\* the AOV file of the scene a call names is on disk
AovFileOnDisk(scene) ==
    /\ project_path # NoProject
    /\ AovFileExists(Here, DirOf(project_path), JsonName(scene))

AovFileText(scene) == aov_fs[DirOf(project_path)][JsonName(scene)]

\* a load that reads storage: a project is set and a scene is named
LoadingScene == Loading /\ project_path # NoProject /\ last'.scene # <<>>

\* C7: load_aovs_for_scene on a scene whose JSON file does not exist ends
\* with an empty selection and the 'not found' log message, and reports no
\* error.
C7_AbsentFileLoadsEmpty ==
    [][ (LoadingScene /\ ~AovFileOnDisk(last'.scene)) =>
          /\ loaded_aovs' = PyList(<<>>)
          /\ log' = <<LogAovAbsent(JsonName(last'.scene))>>
          /\ errors' = <<>>
      ]_vars

\* a scene without an AOV file was loaded
C7_LoadedAbsentFile ==
    /\ last.op = "load_aovs_for_scene"
    /\ last.scene # <<>>
    /\ ~AovFileOnDisk(last.scene)
    /\ log = <<LogAovAbsent(JsonName(last.scene))>>

\* the text is an AOV document: a JSON object whose "aovs" member is a list
ValidAovDocument(doc) ==
    LET r == JsonLoad(doc)
    IN  /\ r.ok
        /\ r.val.k = "obj"
        /\ DictGet(r.val, "aovs", PyNone).k = "list"

\* C8: load_aovs_for_scene on a file that exists but is no AOV document
\* (invalid JSON, or "aovs" missing or not a list) ends with an empty
\* selection and reports the 'cannot read the AOV file' error.
C8_CorruptFileIsAnError ==
    [][ (LoadingScene /\ AovFileOnDisk(last'.scene)
           /\ ~ValidAovDocument(AovFileText(last'.scene))) =>
          /\ loaded_aovs' = PyList(<<>>)
          /\ errors' = <<ErrAovLoad(JsonName(last'.scene))>>
      ]_vars

\* a save that reads storage: a project is set and a scene is named
SavingScene == Saving /\ project_path # NoProject /\ last'.scene # <<>>

\* C9: a save_aovs_for_scene that fails leaves the scene's stored AOV file
\* with the contents it had.
C9_FailedSaveKeepsFile ==
    [][ (SavingScene /\ AovFileOnDisk(last'.scene) /\ (errors' # <<>> \/ raised')) =>
          aov_fs'[DirOf(project_path)][JsonName(last'.scene)]
              = AovFileText(last'.scene)
      ]_vars

\* what load_aovs_for_scene(scene) would load from a storage
LoadResult(folders, files, scene) ==
    load_aovs_for_scene([Here EXCEPT !.json_dir = folders, !.aov_fs = files],
                        scene, FALSE).loaded_aovs

\* C10: a save_aovs_for_scene(A, S) does not change what
\* load_aovs_for_scene(B) loads, for any other scene B listed in the
\* project (also one that differs from A by its extension only).
C10_SaveLeavesOtherScenes ==
    [][ SavingScene =>
          \A other \in Range(render_files) \ {last'.scene} :
              LoadResult(json_dir', aov_fs', other)
                  = LoadResult(json_dir, aov_fs, other)
      ]_vars

(***************************************************************************)
(* The published list of AOV files.  Python's sorted() compares strings by *)
(* code point; CodePoints gives the code points of the atoms that names of *)
(* render/json are made of.                                                *)
(***************************************************************************)
CodePoints ==
    [ a \in {".", "A", "a", "b", "s", "bat", "json"} |->
        CASE a = "." -> <<46>>
          [] a = "A" -> <<65>>
          [] a = "a" -> <<97>>
          [] a = "b" -> <<98>>
          [] a = "s" -> <<115>>
          [] a = "bat" -> <<98, 97, 116>>
          [] OTHER -> <<106, 115, 111, 110>> ]

NameCode(name) == Flatten([i \in 1..Len(name) |-> CodePoints[name[i]]])

\* x comes before y in ordinal string order
RECURSIVE OrdinalLess(_, _)
OrdinalLess(x, y) ==
    IF y = <<>> THEN FALSE
    ELSE IF x = <<>> THEN TRUE
    ELSE IF Head(x) = Head(y) THEN OrdinalLess(Tail(x), Tail(y))
    ELSE Head(x) < Head(y)

StrictlyAscending(names) ==
    \A i, j \in 1..Len(names) :
        i < j => OrdinalLess(NameCode(names[i]), NameCode(names[j]))

\* the *.json files of the project's render/json folder
JsonFilesOnDisk(folders, files) ==
    IF folders[DirOf(project_path)]
    THEN { n \in DOMAIN files[DirOf(project_path)] : Last(n) = "json" }
    ELSE {}

\* a step that ends with _update_aov_json_files: a refresh that did not
\* raise, or a save that went through
Rescanned ==
    /\ project_path # NoProject
    /\ \/ last'.op = "refresh_project_files" /\ ~raised'
       \/ last'.op = "save_aovs_for_scene" /\ ~raised' /\ errors' = <<>>

\* C11: the published list of AOV files is always in ascending ordinal
\* (case-sensitive) order of file name, without repetition, and a rescan
\* publishes exactly the *.json files of render/json.
C11_PublishedListSorted ==
    [][ /\ StrictlyAscending(view_json_list')
        /\ Rescanned =>
             Range(view_json_list') = JsonFilesOnDisk(json_dir', aov_fs')
      ]_vars

\* the list was published from a folder that holds A.json, a.json, s.json
\* and a file that is no JSON file
C11_MixedCaseListPublished ==
    /\ view_json_list = << <<"A", ".", "json">>, <<"a", ".", "json">>,
                           <<"s", ".", "json">> >>
    /\ <<"b", ".", "bat">> \in DOMAIN aov_fs["P"]

\* the flags that pass the reflection and the refraction depth to Arnold
DepthFlags == {"-ai:td", "-ai:rfr"}

\* every argument list the stand-alone script can build for a scene
StandaloneCommands(rs) ==
    { StandaloneArgs(rs, <<<<"C:">>, <<"P">>>>, scene, aov, suffix) :
        scene \in {SceneS_ma, SceneS_mb}, aov \in BOOLEAN,
        suffix \in {"v001", "default"} }

\* C12: with the ray-tracing setting false, a compiled script holds neither
\* the reflection nor the refraction depth flag, whatever the depths are
\* (zero included): in the script create_batch_file writes, and in the
\* arguments the stand-alone script builds.
C12_NoDepthFlagsWhenOff ==
    /\ (Wrote /\ ~last.settings.ray_tracing) =>
         \A f \in DepthFlags : Occurrences(Script, f) = {}
    /\ \A rs \in StandaloneSettings :
         ~rs.ray_tracing =>
           \A args \in StandaloneCommands(rs) : Range(args) \cap DepthFlags = {}

\* a script written with the ray-tracing setting off and both depths zero
C12_ScriptWithDepthsZero ==
    /\ Wrote
    /\ ~last.settings.ray_tracing
    /\ last.settings.reflection = 0
    /\ last.settings.refraction = 0

\* the text the script assigns to FILENAME, without its quotes
EmittedFileName(script) ==
    LET i    == CHOOSE i \in Assignments(script, "FILENAME=") : TRUE
        text == SubSeq(script[i], 3, Len(script[i]))
    IN  IF Len(text) >= 2 /\ Head(text) = Quote /\ Last(text) = Quote
        THEN SubSeq(text, 2, Len(text) - 1)
        ELSE text

\* C13: the output file name in the script create_batch_file writes is the
\* user's file name verbatim where one is given, and the scene's stem
\* otherwise.
C13_FileNameVerbatimOrStem ==
    Wrote =>
        /\ Assignments(Script, "FILENAME=") # {}
        /\ EmittedFileName(Script)
             = (IF last.settings.file_name # <<>>
                THEN last.settings.file_name
                ELSE PathStem(last.scene))

\* the folders that exist on the disk of the model, as pathlib holds them
ExistingFolders == {<<<<"C:">>, <<"P">>>>, <<<<"C:">>, <<"Q">>>>}

\* the paths of PathInputs that name one of them
FolderInputs == {<<"C:", "/", "P">>, <<"C:", "/", "Q">>}

\* C14: the project path is unset or an existing folder; set_project_path
\* with "" or with a path that is no folder leaves the project path, the
\* scene list and the AOV file list as they were, and reports an error for
\* the path that is no folder (and none for "").
C14_RejectedPathChangesNothing ==
    [][ /\ project_path' = NoProject \/ project_path' \in ExistingFolders
        /\ (last'.op = "set_project_path" /\ last'.path \notin FolderInputs) =>
              /\ UNCHANGED <<project_path, render_files, aov_json_files,
                             view_json_list>>
              /\ ~raised'
              /\ IF last'.path = <<>>
                 THEN errors' = <<>>
                 ELSE /\ Len(errors') = 1
                      /\ Contains(errors'[1], last'.path) ]_vars

\* a path that is no folder was refused while a project with scenes is open
C14_RefusedWithProjectOpen ==
    /\ last.op = "set_project_path"
    /\ last.path = <<"C:", "/", "X">>
    /\ project_path = <<<<"C:">>, <<"P">>>>
    /\ render_files # <<>>
    /\ errors # <<>>

\* the *.json files of the render/json folder of folder d
JsonFilesIn(folders, files, d) ==
    IF folders[d] THEN { n \in DOMAIN files[d] : Last(n) = "json" } ELSE {}

\* a step in which set_project_path is given a folder other than the
\* project's
AcceptsNewFolder ==
    /\ last'.op = "set_project_path"
    /\ last'.path \in FolderInputs
    /\ PathParts(last'.path) # project_path

\* C15: when set_project_path accepts a new folder, the call ends with the
\* project path replaced, the scene list and the AOV file list (the model's
\* and the published one) those of the new folder, and the path persisted
\* in the settings file.
C15_AcceptedFolderIsRescanned ==
    [][ AcceptsNewFolder =>
          LET d == Last(last'.path)
          IN  /\ project_path' = PathParts(last'.path)
              /\ Range(render_files') = Scenes(d)
              /\ Range(aov_json_files') = JsonFilesIn(json_dir', aov_fs', d)
              /\ Range(view_json_list') = JsonFilesIn(json_dir', aov_fs', d)
              /\ settings_file' = last'.path ]_vars

\* the presets of the catalogue whose size is the current one
PresetsOfCurrentSize ==
    { i \in 1..Len(image_presets) :
        /\ image_presets[i][2].width = image_width
        /\ image_presets[i][2].height = image_height }

\* C16: once the start-up calls are over, the current preset is 'Custom'
\* whenever the current width and height are those of no preset of the
\* catalogue, and otherwise names a preset of the catalogue that has them.
C16_PresetAgreesWithSize ==
    pc = "ui" =>
        IF PresetsOfCurrentSize = {}
        THEN current_preset = "Custom"
        ELSE \E i \in PresetsOfCurrentSize : image_presets[i][1] = current_preset

\* the calls the controller makes for the user
UiCalls == {"set_project_path", "refresh_project_files", "load_aovs_for_scene",
            "save_aovs_for_scene", "create_batch_file"}

\* C17: no call made from the UI ends with an exception, and a call whose
\* storage step failed (creating a folder, opening or writing a file) has
\* reported an error.
C17_FailuresAreReported ==
    last.op \in UiCalls =>
        /\ ~raised
        /\ last.io.fail # "none" => errors # <<>>

\* the text of <project>/render/json, with the separator that follows it
JsonFolderPrefix ==
    JoinParts(project_path \o << <<"render">>, <<"json">> >>) \o <<"\\">>

\* C18: for every scene name, the AOV file of the scene is a direct child of
\* <project>/render/json: its path is that folder's, one separator and a
\* name that holds no separator.
C18_AovFileInsideJsonFolder ==
    last.op = "json_path" =>
        /\ Len(last.path) > Len(JsonFolderPrefix)
        /\ SubSeq(last.path, 1, Len(JsonFolderPrefix)) = JsonFolderPrefix
        /\ \A i \in (Len(JsonFolderPrefix) + 1)..Len(last.path) :
              last.path[i] \notin Separators

\* C19: create_batch_file, whether it succeeds or fails, leaves the model's
\* fields and the AOV files as they were, and writes nothing to storage
\* itself: no batch file appears or changes.
C19_CompileHasNoSideEffect ==
    [][ last'.op = "create_batch_file" =>
          /\ UNCHANGED <<project_path, render_exe_path, render_files,
                         aov_json_files, view_json_list, loaded_aovs,
                         image_presets, image_width, image_height,
                         current_preset>>
          /\ UNCHANGED <<render_dir, json_dir, aov_fs>>
          /\ UNCHANGED bat_fs ]_vars

\* the line of the script that holds flag followed by the number depth
FlagWithDepth(script, flag, depth) ==
    \E i \in 1..Len(script) : \E k \in 1..(Len(script[i]) - 1) :
        script[i][k] = flag /\ script[i][k + 1] = ToString(depth)

\* C20: a script compiled with the ray-tracing setting true holds the
\* reflection depth flag and the refraction depth flag, each followed by the
\* depth of the render settings.
C20_DepthFlagsWhenOn ==
    (Wrote /\ last.settings.ray_tracing) =>
        /\ FlagWithDepth(Script, "-ai:td", last.settings.reflection)
        /\ FlagWithDepth(Script, "-ai:rfr", last.settings.refraction)

\* the selection stored on disk for a scene: the "aovs" list of its AOV
\* file, empty when the file is absent or is no AOV document
StoredSelection(scene) ==
    IF AovFileOnDisk(scene) /\ ValidAovDocument(AovFileText(scene))
    THEN DictGet(JsonLoad(AovFileText(scene)).val, "aovs", PyNone)
    ELSE PyList(<<>>)

\* the call just made was a load, or a save that went through, for a scene
\* of the project: the scene it names is the one selected in the view
SelectedSceneCall ==
    /\ project_path # NoProject
    /\ last.scene # <<>>
    /\ \/ last.op = "load_aovs_for_scene" /\ ~raised
       \/ Saved

\* C21: after a scene selection or an AOV export under a project, the
\* loaded AOV selection is the selection stored on disk for the selected
\* scene (empty without a readable file); so it reflects a save just made
\* for that scene.
C21_LoadedSelectionIsStored ==
    SelectedSceneCall => loaded_aovs = StoredSelection(last.scene)

\* the scene's AOV file is in render/json of folder d and in the published
\* list
Configured(folders, files, list, d, scene) ==
    /\ folders[d]
    /\ JsonName(scene) \in DOMAIN files[d]
    /\ JsonName(scene) \in Range(list)

\* C22: a save_aovs_for_scene that succeeds leaves the scene configured (its
\* AOV file on disk and in the published list); a configured scene stays so
\* over every step that neither changes the project path nor removes the
\* file; and a create_batch_file for a configured scene with the AOV flag
\* on writes a script that holds the -rsa flag and an active AOV_PRESET
\* assignment.
C22_SavedSceneCompilesWithAov ==
    [][ /\ (Saving /\ errors' = <<>> /\ ~raised') =>
              Configured(json_dir', aov_fs', view_json_list',
                         DirOf(project_path'), last'.scene)
        /\ (project_path # NoProject /\ project_path' = project_path) =>
              LET d == DirOf(project_path)
              IN  \A scene \in {SceneS_ma, SceneS_mb} :
                    ( /\ Configured(json_dir, aov_fs, view_json_list, d, scene)
                      /\ JsonName(scene) \in DOMAIN aov_fs'[d] )
                    => /\ Configured(json_dir', aov_fs', view_json_list', d, scene)
                       /\ ( /\ last'.op = "create_batch_file"
                            /\ last'.scene = scene
                            /\ last'.settings.aov_enabled
                            /\ errors' = <<>> )
                          => LET script == bat_fs'[d][BatName(scene)]
                             IN  /\ \E i \in 1..Len(script) :
                                       "-rsa" \in Range(script[i])
                                 /\ \E i \in 1..Len(script) :
                                       /\ Len(script[i]) >= 2
                                       /\ script[i][1] = "SET"
                                       /\ script[i][2] = "AOV_PRESET="
      ]_vars

\* a script with the -rsa flag was written for a scene whose AOV file a save
\* had written
C22_CompiledAfterSave ==
    /\ Wrote
    /\ FlagOn
    /\ HasRsa(Script)
    /\ Configured(json_dir, aov_fs, view_json_list, DirOf(project_path), last.scene)
    /\ aov_fs[DirOf(project_path)][JsonName(last.scene)] = Dump(<<"N", "beauty">>)

====
